---- MODULE Spec2Model ----
(***************************************************************************)
(* Peer certificate extraction of usual/tls/tls_cert.c.                    *)
(*                                                                         *)
(* tls_get_peer_cert is modelled as a state machine that walks through     *)
(* the chain of "if (ret == 0) ret = step(...)" statements, one action per *)
(* step; the loop over the subjectAltName entries takes one action per     *)
(* entry.  The decoders (tls_cert_get_name_string, tls_get_entity,         *)
(* tls_load_alt_ia5string, tls_load_alt_ipaddr, tls_parse_time,            *)
(* tls_parse_bigint, tls_cert_free) are operators over an explicit heap.   *)
(* tls_get_peer_cert_fingerprint is a second state machine, one action per *)
(* statement block, over the caller's buffer and the temporary buffer.     *)
(*                                                                         *)
(* Raw bytes are integers 0..255; printed text is a sequence of            *)
(* one-character strings.                                                  *)
(***************************************************************************)
EXTENDS Integers, Sequences, FiniteSets, TLC

VARIABLES
    pc,       \* position inside tls_get_peer_cert / of the caller
    conn,     \* ctx->ssl_conn is non-NULL
    peer,     \* the certificate SSL_get_peer_certificate returns
    mem,      \* the allocator: heap blocks with their free counts
    errs,     \* the messages tls_set_error was given during the call
    cert,     \* struct tls_cert_info under construction
    cert_p,   \* *cert_p of the caller
    ret,      \* the local ret of tls_get_peer_cert
    alt,      \* locals of tls_cert_get_altnames
    steps,    \* history: the decode steps and lookups executed
    tcall,    \* a stand-alone call of tls_parse_time
    bcall,    \* a stand-alone call of tls_parse_bigint
    fcall     \* a call of tls_get_peer_cert_fingerprint

vars == <<pc, conn, peer, mem, errs, cert, cert_p, ret, alt, steps, tcall, bcall, fcall>>

(***************************************************************************)
(* Bounds of the model.                                                    *)
(***************************************************************************)
\* a peer certificate differs from BaseCert in at most MaxEdits places
MaxEdits == 2
\* the allocation that fails is one of the first MaxOom + 1 of a call
MaxOom == 11
\* serial numbers have at most MaxSerialLen magnitude bytes
MaxSerialLen == 9

(***************************************************************************)
(* Program constants.                                                      *)
(***************************************************************************)
TLS_CERT_NAME_DNS == "TLS_CERT_NAME_DNS"
TLS_CERT_NAME_IPv4 == "TLS_CERT_NAME_IPv4"
TLS_CERT_NAME_IPv6 == "TLS_CERT_NAME_IPv6"
TLS_CERT_NAME_EMAIL == "TLS_CERT_NAME_EMAIL"
TLS_CERT_NAME_URI == "TLS_CERT_NAME_URI"
\* alt_name_type of a slot calloc left zeroed
NoType == "0"
\* sizeof(long) of ASN1_INTEGER_get's result
SizeofLong == 8

NUL == 0
SPACE == 32

(***************************************************************************)
(* Small helpers on sequences.                                             *)
(***************************************************************************)
Range(s) == {s[k] : k \in 1..Len(s)}

Min(a, b) == IF a < b THEN a ELSE b

\* the C string a NUL-terminated buffer holds: the bytes before the first NUL
CStr(buf) ==
    LET nuls == {k \in 1..Len(buf) : buf[k] = NUL}
    IN IF nuls = {} THEN buf
       ELSE SubSeq(buf, 1, (CHOOSE k \in nuls : \A j \in nuls : k <= j) - 1)

(***************************************************************************)
(* The allocator.  heap[p] counts the free() calls block p has seen, n     *)
(* counts the allocations asked for, and the allocations whose ordinal is  *)
(* in fail return NULL.                                                    *)
(***************************************************************************)
NULL == 0

NullStr == [ptr |-> NULL, val |-> <<>>]

Alloc(m) ==
    IF m.n \in m.fail
    THEN [ok |-> FALSE, ptr |-> NULL,
          mem |-> [m EXCEPT !.n = @ + 1, !.hit = TRUE]]
    ELSE [ok |-> TRUE, ptr |-> Len(m.heap) + 1,
          mem |-> [m EXCEPT !.n = @ + 1, !.heap = Append(@, 0)]]

\* free(p); free(NULL) does nothing
Free(m, p) == IF p = NULL THEN m ELSE [m EXCEPT !.heap[p] = @ + 1]

RECURSIVE FreeAll(_, _)
FreeAll(m, ps) ==
    IF ps = <<>> THEN m ELSE FreeAll(Free(m, Head(ps)), Tail(ps))

\* tls_set_error(ctx, msg)
tls_set_error(e, msg) == Append(e, msg)

(***************************************************************************)
(* Distinguished names.                                                    *)
(***************************************************************************)
\* the seven lookups of tls_get_entity, in the order of the code
EntNid == <<"commonName", "countryName", "stateOrProvinceName", "localityName",
            "streetAddress", "organizationName", "organizationalUnitName">>

EntField == <<"common_name", "country_name", "state_or_province_name",
              "locality_name", "street_address", "organization_name",
              "organizational_unit_name">>

Nids == Range(EntNid)

\* struct tls_cert_entity after calloc
NullEntity == [f \in Range(EntField) |-> NullStr]

\* X509_NAME_get_text_by_NID(name, nid, NULL, 0): the length, -1 when absent
X509_NAME_get_text_len(name, nid) ==
    IF name[nid].present THEN Len(name[nid].data) ELSE -1

\* X509_NAME_get_text_by_NID(name, nid, buf, len): the buffer it leaves
X509_NAME_get_text(name, nid, buflen) ==
    LET n == Min(Len(name[nid].data), buflen - 1)
    IN SubSeq(name[nid].data, 1, n) \o [k \in 1..(buflen - n) |-> NUL]

\* tls_cert_get_name_string without the search for NUL bytes
tls_cert_get_name_string_no_nul_check(m, e, name, nid) ==
    LET res_len == X509_NAME_get_text_len(name, nid)
        a == Alloc(m)
        res == X509_NAME_get_text(name, nid, res_len + 1)
    IN IF res_len < 0
       THEN [ret |-> 0, str |-> NullStr, mem |-> m, errs |-> e]
       ELSE IF ~a.ok
       THEN [ret |-> -1, str |-> NullStr, mem |-> a.mem,
             errs |-> tls_set_error(e, "no mem")]
       ELSE [ret |-> 0, str |-> [ptr |-> a.ptr, val |-> CStr(res)],
             mem |-> a.mem, errs |-> e]

tls_cert_get_name_string(m, e, name, nid) ==
    LET res_len == X509_NAME_get_text_len(name, nid)
        a == Alloc(m)
        res == X509_NAME_get_text(name, nid, res_len + 1)
    IN IF res_len < 0
       THEN [ret |-> 0, str |-> NullStr, mem |-> m, errs |-> e]
       ELSE IF ~a.ok
       THEN [ret |-> -1, str |-> NullStr, mem |-> a.mem,
             errs |-> tls_set_error(e, "no mem")]
       ELSE IF \E k \in 1..res_len : res[k] = NUL
       THEN [ret |-> -2, str |-> NullStr, mem |-> Free(a.mem, a.ptr),
             errs |-> tls_set_error(e, "corrupt cert - NUL bytes is value")]
       ELSE [ret |-> 0, str |-> [ptr |-> a.ptr, val |-> CStr(res)],
             mem |-> a.mem, errs |-> e]

RECURSIVE tls_get_entity_from(_, _, _)
tls_get_entity_from(k, st, name) ==
    IF k > Len(EntNid) THEN st
    ELSE IF st.ret # 0 THEN tls_get_entity_from(k + 1, st, name)
    ELSE LET r == tls_cert_get_name_string(st.mem, st.errs, name, EntNid[k])
         IN tls_get_entity_from(k + 1,
                [ret |-> r.ret, mem |-> r.mem, errs |-> r.errs,
                 ent |-> [st.ent EXCEPT ![EntField[k]] = r.str],
                 looked |-> Append(st.looked, EntNid[k])],
                name)

tls_get_entity(m, e, name, ent) ==
    tls_get_entity_from(1,
        [ret |-> 0, mem |-> m, errs |-> e, ent |-> ent, looked |-> <<>>], name)

(***************************************************************************)
(* subjectAltName entries.  A GENERAL_NAME is [type, format, data]: the    *)
(* GeneralName choice, the ASN1_STRING_type of its value and its bytes.    *)
(***************************************************************************)
NullSlot == [alt_name |-> NullStr, alt_name_type |-> NoType]

NullAltNames == [ptr |-> NULL, slots |-> <<>>]

\* tls_load_alt_ia5string without the rejection of the single space
tls_load_alt_ia5string_space_allowed(m, e, ia5str, ci, slot_type) ==
    LET slot == ci.subject_alt_name_count + 1
        data == ia5str.data
        len == Len(data)
        a == Alloc(m)
    IN IF ia5str.format # "V_ASN1_IA5STRING"
       THEN [rv |-> 0, mem |-> m, errs |-> e, cert |-> ci]
       ELSE IF len <= 0 \/ \E k \in 1..len : data[k] = NUL
       THEN [rv |-> -1, mem |-> m, cert |-> ci,
             errs |-> tls_set_error(e, "invalid string value")]
       ELSE IF ~a.ok
       THEN [rv |-> -1, mem |-> a.mem, cert |-> ci,
             errs |-> tls_set_error(e, "no mem")]
       ELSE [rv |-> 0, mem |-> a.mem, errs |-> e,
             cert |-> [ci EXCEPT
                 !.subject_alt_names.slots[slot] =
                     [alt_name |-> [ptr |-> a.ptr, val |-> CStr(data \o <<NUL>>)],
                      alt_name_type |-> slot_type],
                 !.subject_alt_name_count = @ + 1]]

\* tls_load_alt_ia5string that always fills the first slot of the array
tls_load_alt_ia5string_first_slot(m, e, ia5str, ci, slot_type) ==
    LET data == ia5str.data
        len == Len(data)
        a == Alloc(m)
    IN IF ia5str.format # "V_ASN1_IA5STRING"
       THEN [rv |-> 0, mem |-> m, errs |-> e, cert |-> ci]
       ELSE IF len <= 0 \/ \E k \in 1..len : data[k] = NUL
       THEN [rv |-> -1, mem |-> m, cert |-> ci,
             errs |-> tls_set_error(e, "invalid string value")]
       ELSE IF len = 1 /\ data[1] = SPACE
       THEN [rv |-> -1, mem |-> m, cert |-> ci,
             errs |-> tls_set_error(e, "single space as name")]
       ELSE IF ~a.ok
       THEN [rv |-> -1, mem |-> a.mem, cert |-> ci,
             errs |-> tls_set_error(e, "no mem")]
       ELSE [rv |-> 0, mem |-> a.mem, errs |-> e,
             cert |-> [ci EXCEPT
                 !.subject_alt_names.slots[1] =
                     [alt_name |-> [ptr |-> a.ptr, val |-> CStr(data \o <<NUL>>)],
                      alt_name_type |-> slot_type],
                 !.subject_alt_name_count = @ + 1]]

tls_load_alt_ia5string(m, e, ia5str, ci, slot_type) ==
    LET slot == ci.subject_alt_name_count + 1
        data == ia5str.data
        len == Len(data)
        a == Alloc(m)
    IN IF ia5str.format # "V_ASN1_IA5STRING"
       THEN [rv |-> 0, mem |-> m, errs |-> e, cert |-> ci]
       ELSE IF len <= 0 \/ \E k \in 1..len : data[k] = NUL
       THEN [rv |-> -1, mem |-> m, cert |-> ci,
             errs |-> tls_set_error(e, "invalid string value")]
       ELSE IF len = 1 /\ data[1] = SPACE
       THEN [rv |-> -1, mem |-> m, cert |-> ci,
             errs |-> tls_set_error(e, "single space as name")]
       ELSE IF ~a.ok
       THEN [rv |-> -1, mem |-> a.mem, cert |-> ci,
             errs |-> tls_set_error(e, "no mem")]
       ELSE [rv |-> 0, mem |-> a.mem, errs |-> e,
             cert |-> [ci EXCEPT
                 !.subject_alt_names.slots[slot] =
                     [alt_name |-> [ptr |-> a.ptr, val |-> CStr(data \o <<NUL>>)],
                      alt_name_type |-> slot_type],
                 !.subject_alt_name_count = @ + 1]]

\* tls_load_alt_ipaddr that takes every length other than 4 for IPv6
tls_load_alt_ipaddr_any_length(m, e, bin, ci) ==
    LET slot == ci.subject_alt_name_count + 1
        len == Len(bin.data)
        type == IF len = 4 THEN TLS_CERT_NAME_IPv4 ELSE TLS_CERT_NAME_IPv6
        typed == [ci EXCEPT !.subject_alt_names.slots[slot].alt_name_type = type]
        a == Alloc(m)
    IN IF len < 0
       THEN [rv |-> -1, mem |-> m, cert |-> ci,
             errs |-> tls_set_error(e, "negative length for ipaddress")]
       ELSE IF ~a.ok
       THEN [rv |-> -1, mem |-> a.mem, cert |-> typed,
             errs |-> tls_set_error(e, "no mem")]
       ELSE [rv |-> 0, mem |-> a.mem, errs |-> e,
             cert |-> [typed EXCEPT
                 !.subject_alt_names.slots[slot].alt_name =
                     [ptr |-> a.ptr, val |-> SubSeq(bin.data, 1, len)],
                 !.subject_alt_name_count = @ + 1]]

tls_load_alt_ipaddr(m, e, bin, ci) ==
    LET slot == ci.subject_alt_name_count + 1
        len == Len(bin.data)
        type == IF len = 4 THEN TLS_CERT_NAME_IPv4 ELSE TLS_CERT_NAME_IPv6
        typed == [ci EXCEPT !.subject_alt_names.slots[slot].alt_name_type = type]
        a == Alloc(m)
    IN IF len < 0
       THEN [rv |-> -1, mem |-> m, cert |-> ci,
             errs |-> tls_set_error(e, "negative length for ipaddress")]
       ELSE IF len # 4 /\ len # 16
       THEN [rv |-> -1, mem |-> m, cert |-> ci,
             errs |-> tls_set_error(e, "invalid length for ipaddress")]
       ELSE IF ~a.ok
       THEN [rv |-> -1, mem |-> a.mem, cert |-> typed,
             errs |-> tls_set_error(e, "no mem")]
       ELSE [rv |-> 0, mem |-> a.mem, errs |-> e,
             cert |-> [typed EXCEPT
                 !.subject_alt_names.slots[slot].alt_name =
                     [ptr |-> a.ptr, val |-> SubSeq(bin.data, 1, len)],
                 !.subject_alt_name_count = @ + 1]]

\* the body of the loop of tls_cert_get_altnames: the dispatch on the type
\* of one entry; an entry of another type leaves rv as it was
tls_cert_get_altnames_entry(m, e, altname, ci, rv) ==
    IF altname.type = "GEN_DNS"
    THEN tls_load_alt_ia5string(m, e, altname, ci, TLS_CERT_NAME_DNS)
    ELSE IF altname.type = "GEN_EMAIL"
    THEN tls_load_alt_ia5string(m, e, altname, ci, TLS_CERT_NAME_EMAIL)
    ELSE IF altname.type = "GEN_URI"
    THEN tls_load_alt_ia5string(m, e, altname, ci, TLS_CERT_NAME_URI)
    ELSE IF altname.type = "GEN_IPADD"
    THEN tls_load_alt_ipaddr(m, e, altname, ci)
    ELSE [rv |-> rv, mem |-> m, errs |-> e, cert |-> ci]

(***************************************************************************)
(* tls_cert_free.                                                          *)
(***************************************************************************)
tls_cert_free_entity(m, ent) ==
    FreeAll(m, [k \in 1..Len(EntField) |-> ent[EntField[k]].ptr])

\* tls_cert_free that forgets the alt names stored in the array
tls_cert_free_no_altnames(m, c) ==
    IF c.ptr = NULL THEN m
    ELSE LET m1 == tls_cert_free_entity(m, c.issuer)
             m2 == tls_cert_free_entity(m1, c.subject)
         IN FreeAll(m2, <<c.subject_alt_names.ptr, c.serial.ptr,
                          c.not_before.ptr, c.not_after.ptr, c.ptr>>)

tls_cert_free(m, c) ==
    IF c.ptr = NULL THEN m
    ELSE LET m1 == tls_cert_free_entity(m, c.issuer)
             m2 == tls_cert_free_entity(m1, c.subject)
             m3 == FreeAll(m2, [k \in 1..c.subject_alt_name_count |->
                                   c.subject_alt_names.slots[k].alt_name.ptr])
         IN FreeAll(m3, <<c.subject_alt_names.ptr, c.serial.ptr,
                          c.not_before.ptr, c.not_after.ptr, c.ptr>>)

\* cert == NULL
NullCert ==
    [ptr |-> NULL, version |-> 0, subject |-> NullEntity, issuer |-> NullEntity,
     subject_alt_names |-> NullAltNames, subject_alt_name_count |-> 0,
     not_before |-> NullStr, not_after |-> NullStr, serial |-> NullStr]

(***************************************************************************)
(* tls_parse_time.  Text is a sequence of one-character strings; TNUL is   *)
(* the terminating NUL of a C string, a char pointer is [null, s].         *)
(***************************************************************************)
TNUL == "NUL"

DigitChars == <<"0", "1", "2", "3", "4", "5", "6", "7", "8", "9">>

Digits == Range(DigitChars)

months == << <<"J", "a", "n">>, <<"F", "e", "b">>, <<"M", "a", "r">>,
             <<"A", "p", "r">>, <<"M", "a", "y">>, <<"J", "u", "n">>,
             <<"J", "u", "l">>, <<"A", "u", "g">>, <<"S", "e", "p">>,
             <<"O", "c", "t">>, <<"N", "o", "v">>, <<"D", "e", "c">> >>

\* printf("%2d") and printf("%02d") of a number below 100
Fmt2d(n) == IF n < 10 THEN <<" ", DigitChars[n + 1]>>
            ELSE <<DigitChars[(n \div 10) + 1], DigitChars[(n % 10) + 1]>>

Fmt02d(n) == <<DigitChars[(n \div 10) + 1], DigitChars[(n % 10) + 1]>>

\* ASN1_TIME_print: "%s %2d %02d:%02d:%02d %d%s" of the fields of the time
ASN1_TIME_print(t) ==
    t.mon \o <<" ">> \o Fmt2d(t.day) \o <<" ">> \o t.time \o <<" ">> \o t.year \o t.tz

NullPtr == [null |-> TRUE, s |-> <<>>]

Ptr(s) == [null |-> FALSE, s |-> s]

\* strsep(&tmp, " "): the token and the new value of tmp
strsep(tmp) ==
    LET sp == {k \in 1..Len(tmp.s) : tmp.s[k] = " "}
        k0 == CHOOSE k \in sp : \A j \in sp : k <= j
    IN IF tmp.null THEN [tok |-> NullPtr, tmp |-> NullPtr]
       ELSE IF sp = {} THEN [tok |-> tmp, tmp |-> NullPtr]
       ELSE [tok |-> Ptr(SubSeq(tmp.s, 1, k0 - 1)),
             tmp |-> Ptr(SubSeq(tmp.s, k0 + 1, Len(tmp.s)))]

\* the n bytes memcmp reads at a token strsep cut out of buf
TokenBytes(tok, after, n) ==
    SubSeq(tok.s \o <<TNUL>> \o after.s \o [k \in 1..n |-> TNUL], 1, n)

\* tls_parse_time without the zero for the space of a padded day
tls_parse_time_day_not_padded(m, e, asn1time) ==
    LET bio == Alloc(m)
        printed == ASN1_TIME_print(asn1time)
        m1 == Free(bio.mem, bio.ptr)
        \* BIO_read(bio, buf, sizeof(buf) - 1) into the zeroed buf
        buf0 == SubSeq(printed, 1, Min(Len(printed), 127))
        buf == buf0
        s1 == strsep(Ptr(buf))
        s2 == strsep(s1.tmp)
        s3 == strsep(s2.tmp)
        s4 == strsep(s3.tmp)
        s5 == strsep(s4.tmp)
        mon == s1.tok
        day == s2.tok
        time == s3.tok
        year == s4.tok
        tz == s5.tok
        tmp == s5.tmp
        hits == {i \in 0..11 :
                    months[i + 1] \o <<TNUL>> = TokenBytes(mon, s1.tmp, 4)}
        i == IF hits = {} THEN 12 ELSE CHOOSE i \in hits : \A j \in hits : i <= j
        out == Alloc(m1)
        invalid == [ret |-> -1, dst |-> NullStr, mem |-> m1,
                    errs |-> tls_set_error(e, "invalid time format")]
    IN IF ~bio.ok
       THEN [ret |-> -1, dst |-> NullStr, mem |-> bio.mem,
             errs |-> tls_set_error(e, "no mem to parse time")]
       ELSE IF ~asn1time.valid
       THEN [ret |-> -1, dst |-> NullStr, mem |-> m1,
             errs |-> tls_set_error(e, "no mem to parse time")]
       ELSE IF year.null \/ ~tmp.null
       THEN [ret |-> -1, dst |-> NullStr, mem |-> m1,
             errs |-> tls_set_error(e, "invalid time format: no year")]
       ELSE IF ~tz.null /\ tz.s # <<"G", "M", "T">>
       THEN invalid
       ELSE IF i > 11
       THEN invalid
       ELSE IF ~out.ok
       THEN [ret |-> -1, dst |-> NullStr, mem |-> out.mem,
             errs |-> tls_set_error(e, "no mem to parse time")]
       ELSE [ret |-> 0, mem |-> out.mem, errs |-> e,
             dst |-> [ptr |-> out.ptr,
                      val |-> year.s \o <<"-">> \o Fmt02d(i + 1) \o <<"-">>
                              \o day.s \o <<"T">> \o time.s \o <<"Z">>]]

tls_parse_time(m, e, asn1time) ==
    LET bio == Alloc(m)
        printed == ASN1_TIME_print(asn1time)
        m1 == Free(bio.mem, bio.ptr)
        \* BIO_read(bio, buf, sizeof(buf) - 1) into the zeroed buf
        buf0 == SubSeq(printed, 1, Min(Len(printed), 127))
        buf == IF Len(buf0) >= 5 /\ buf0[4] = " " /\ buf0[5] = " "
               THEN [buf0 EXCEPT ![5] = "0"] ELSE buf0
        s1 == strsep(Ptr(buf))
        s2 == strsep(s1.tmp)
        s3 == strsep(s2.tmp)
        s4 == strsep(s3.tmp)
        s5 == strsep(s4.tmp)
        mon == s1.tok
        day == s2.tok
        time == s3.tok
        year == s4.tok
        tz == s5.tok
        tmp == s5.tmp
        hits == {i \in 0..11 :
                    months[i + 1] \o <<TNUL>> = TokenBytes(mon, s1.tmp, 4)}
        i == IF hits = {} THEN 12 ELSE CHOOSE i \in hits : \A j \in hits : i <= j
        out == Alloc(m1)
        invalid == [ret |-> -1, dst |-> NullStr, mem |-> m1,
                    errs |-> tls_set_error(e, "invalid time format")]
    IN IF ~bio.ok
       THEN [ret |-> -1, dst |-> NullStr, mem |-> bio.mem,
             errs |-> tls_set_error(e, "no mem to parse time")]
       ELSE IF ~asn1time.valid
       THEN [ret |-> -1, dst |-> NullStr, mem |-> m1,
             errs |-> tls_set_error(e, "no mem to parse time")]
       ELSE IF year.null \/ ~tmp.null
       THEN [ret |-> -1, dst |-> NullStr, mem |-> m1,
             errs |-> tls_set_error(e, "invalid time format: no year")]
       ELSE IF ~tz.null /\ tz.s # <<"G", "M", "T">>
       THEN invalid
       ELSE IF i > 11
       THEN invalid
       ELSE IF ~out.ok
       THEN [ret |-> -1, dst |-> NullStr, mem |-> out.mem,
             errs |-> tls_set_error(e, "no mem to parse time")]
       ELSE [ret |-> 0, mem |-> out.mem, errs |-> e,
             dst |-> [ptr |-> out.ptr,
                      val |-> year.s \o <<"-">> \o Fmt02d(i + 1) \o <<"-">>
                              \o day.s \o <<"T">> \o time.s \o <<"Z">>]]

(***************************************************************************)
(* tls_parse_bigint.  An ASN1_INTEGER is [neg, data]: the sign and the     *)
(* big-endian magnitude bytes.  A serial number exceeds 32 bits, so the    *)
(* numbers are kept as sequences of bytes and of decimal digits.           *)
(***************************************************************************)
IsZero(bytes) == \A k \in 1..Len(bytes) : bytes[k] = 0

\* one long division of a big-endian number in base 256 by 10
RECURSIVE DivMod10(_, _, _)
DivMod10(bytes, q, r) ==
    IF bytes = <<>> THEN [q |-> q, r |-> r]
    ELSE LET cur == r * 256 + Head(bytes)
         IN DivMod10(Tail(bytes), Append(q, cur \div 10), cur % 10)

\* the decimal digits of a big-endian magnitude, most significant first
RECURSIVE ToDec(_)
ToDec(bytes) ==
    LET d == DivMod10(bytes, <<>>, 0)
    IN IF IsZero(d.q) THEN <<DigitChars[d.r + 1]>>
       ELSE Append(ToDec(d.q), DigitChars[d.r + 1])

\* ASN1_INTEGER_get: the value as a long, -1 when it does not fit
ASN1_INTEGER_get(a) ==
    LET len == Len(a.data)
        minus1 == [neg |-> TRUE, mag |-> <<1>>]
    IN IF len > SizeofLong THEN minus1
       ELSE IF IsZero(a.data) THEN [neg |-> FALSE, mag |-> a.data]
       ELSE IF len = SizeofLong /\ a.data[1] >= 128
       THEN IF a.neg /\ a.data[1] = 128 /\ IsZero(Tail(a.data))
            THEN [neg |-> TRUE, mag |-> a.data] ELSE minus1
       ELSE [neg |-> a.neg, mag |-> a.data]

\* ASN1_INTEGER_to_BN: the sign and the magnitude; zero is never negative
ASN1_INTEGER_to_BN(a) == [neg |-> a.neg /\ ~IsZero(a.data), mag |-> a.data]

\* BN_bn2dec: a leading '-' for a negative number, then the digits
BN_bn2dec(big) == (IF big.neg THEN <<"-">> ELSE <<>>) \o ToDec(big.mag)

\* tls_parse_bigint that prints the long of ASN1_INTEGER_get in every case
tls_parse_bigint_always_native(m, e, asn1int) ==
    LET small == ASN1_INTEGER_get(asn1int)
        big == Alloc(m)
        tmp == Alloc(big.mem)
        dup == Alloc(tmp.mem)
        \* OPENSSL_free(tmp); BN_free(big)
        mbig == IF ~big.ok THEN big.mem
                ELSE IF ~tmp.ok THEN Free(tmp.mem, big.ptr)
                ELSE Free(Free(dup.mem, tmp.ptr), big.ptr)
        dbig == IF big.ok /\ tmp.ok /\ dup.ok
                THEN [ptr |-> dup.ptr, val |-> BN_bn2dec(ASN1_INTEGER_to_BN(asn1int))]
                ELSE NullStr
        nat == Alloc(m)
        dnat == IF nat.ok THEN [ptr |-> nat.ptr, val |-> ToDec(small.mag)]
                ELSE NullStr
        dst == dnat
        m1 == nat.mem
    IN IF dst.ptr # NULL
       THEN [ret |-> 0, dst |-> dst, mem |-> m1, errs |-> e]
       ELSE [ret |-> -1, dst |-> NullStr, mem |-> m1,
             errs |-> tls_set_error(e, "cannot parse serial")]

tls_parse_bigint(m, e, asn1int) ==
    LET small == ASN1_INTEGER_get(asn1int)
        big == Alloc(m)
        tmp == Alloc(big.mem)
        dup == Alloc(tmp.mem)
        \* OPENSSL_free(tmp); BN_free(big)
        mbig == IF ~big.ok THEN big.mem
                ELSE IF ~tmp.ok THEN Free(tmp.mem, big.ptr)
                ELSE Free(Free(dup.mem, tmp.ptr), big.ptr)
        dbig == IF big.ok /\ tmp.ok /\ dup.ok
                THEN [ptr |-> dup.ptr, val |-> BN_bn2dec(ASN1_INTEGER_to_BN(asn1int))]
                ELSE NullStr
        nat == Alloc(m)
        dnat == IF nat.ok THEN [ptr |-> nat.ptr, val |-> ToDec(small.mag)]
                ELSE NullStr
        dst == IF small.neg THEN dbig ELSE dnat
        m1 == IF small.neg THEN mbig ELSE nat.mem
    IN IF dst.ptr # NULL
       THEN [ret |-> 0, dst |-> dst, mem |-> m1, errs |-> e]
       ELSE [ret |-> -1, dst |-> NullStr, mem |-> m1,
             errs |-> tls_set_error(e, "cannot parse serial")]

(***************************************************************************)
(* The peer certificates of the model: BaseCert changed in at most         *)
(* MaxEdits places.  An edit replaces one field, appends one               *)
(* subjectAltName entry or makes one allocation of the call fail.          *)
(***************************************************************************)
Absent == [present |-> FALSE, data |-> <<>>]

Attr(data) == [present |-> TRUE, data |-> data]

NoName == [nid \in Nids |-> Absent]

GoodTime == [valid |-> TRUE, mon |-> <<"A", "u", "g">>, day |-> 18,
             time |-> <<"2", "0", ":", "5", "1", ":", "5", "2">>,
             year |-> <<"2", "0", "1", "5">>, tz |-> <<" ", "G", "M", "T">>]

PaddedTime == [valid |-> TRUE, mon |-> <<"J", "a", "n">>, day |-> 1,
               time |-> <<"0", "0", ":", "0", "0", ":", "0", "0">>,
               year |-> <<"2", "0", "2", "4">>, tz |-> <<" ", "G", "M", "T">>]

BaseCert ==
    [conn |-> TRUE, isnull |-> FALSE, version |-> 2, fail |-> {},
     subject_isnull |-> FALSE, issuer_isnull |-> FALSE,
     subject |-> [NoName EXCEPT !["commonName"] = Attr(<<97>>),
                                !["organizationName"] = Attr(<<97, 98>>)],
     issuer |-> [NoName EXCEPT !["commonName"] = Attr(<<98>>)],
     san_present |-> FALSE, san |-> <<>>,
     notBefore |-> GoodTime, notAfter |-> PaddedTime,
     serial |-> [neg |-> FALSE, data |-> <<5>>]]

GN(type, format, data) == [type |-> type, format |-> format, data |-> data]

\* the subjectAltName entries an edit appends
AltEntries ==
    << GN("GEN_DNS", "V_ASN1_IA5STRING", <<97, 98>>),
       GN("GEN_DNS", "V_ASN1_IA5STRING", <<SPACE>>),
       GN("GEN_DNS", "V_ASN1_IA5STRING", <<>>),
       GN("GEN_DNS", "V_ASN1_IA5STRING", <<97, NUL, 98>>),
       GN("GEN_DNS", "V_ASN1_UTF8STRING", <<97>>),
       GN("GEN_EMAIL", "V_ASN1_IA5STRING", <<98>>),
       GN("GEN_URI", "V_ASN1_IA5STRING", <<SPACE>>),
       GN("GEN_URI", "V_ASN1_IA5STRING", <<SPACE, 97>>),
       GN("GEN_IPADD", "V_ASN1_OCTET_STRING", <<10, 0, 0, 1>>),
       GN("GEN_IPADD", "V_ASN1_OCTET_STRING",
          <<32, 1, 13, 184, 0, 0, 0, 0, 0, 0, 0, 0, 0, 0, 0, 1>>),
       GN("GEN_IPADD", "V_ASN1_OCTET_STRING", <<10, 0, 0, 0, 1>>),
       GN("GEN_DIRNAME", "V_ASN1_SEQUENCE", <<>>) >>

\* the other edits, as [f, v]: field f becomes v
FieldEdits ==
    << [f |-> "conn", v |-> FALSE],
       [f |-> "isnull", v |-> TRUE],
       [f |-> "version", v |-> 0 - 1],
       [f |-> "subject_isnull", v |-> TRUE],
       [f |-> "issuer_isnull", v |-> TRUE],
       [f |-> "san_present", v |-> TRUE],
       [f |-> "notBefore", v |-> PaddedTime],
       [f |-> "notBefore", v |-> [GoodTime EXCEPT !.tz = <<" ", "U", "T", "C">>]],
       [f |-> "notBefore", v |-> [GoodTime EXCEPT !.mon = <<"F", "o", "o">>]],
       [f |-> "notBefore", v |-> [GoodTime EXCEPT !.valid = FALSE]],
       [f |-> "notAfter", v |-> [GoodTime EXCEPT !.tz = <<" ", "U", "T", "C">>]],
       [f |-> "notAfter", v |-> [GoodTime EXCEPT !.tz = <<>>]],
       [f |-> "notAfter", v |-> [GoodTime EXCEPT !.mon = <<"a", "u", "g">>]],
       [f |-> "serial", v |-> [neg |-> FALSE, data |-> <<1, 0, 0, 0, 0, 0, 0, 0, 0>>]],
       [f |-> "serial", v |-> [neg |-> FALSE, data |-> <<255, 0, 0, 0, 0, 0, 0, 1>>]],
       [f |-> "serial", v |-> [neg |-> TRUE, data |-> <<5>>]] >>
    \o [k \in 1..Len(EntNid) |->
           [f |-> "subject", nid |-> EntNid[k], v |-> Attr(<<97, NUL, 98>>)]]
    \o [k \in 1..Len(EntNid) |->
           [f |-> "subject", nid |-> EntNid[k], v |-> Attr(<<99>>)]]
    \o << [f |-> "subject", nid |-> "commonName", v |-> Absent],
          [f |-> "subject", nid |-> "commonName", v |-> Attr(<<>>)] >>
    \o [k \in 1..Len(EntNid) |->
           [f |-> "issuer", nid |-> EntNid[k], v |-> Attr(<<NUL>>)]]
    \o << [f |-> "issuer", nid |-> "commonName", v |-> Absent],
          [f |-> "issuer", nid |-> "organizationalUnitName", v |-> Attr(<<99>>)] >>
    \o [k \in 1..(MaxOom + 1) |-> [f |-> "fail", v |-> {k - 1}]]

ApplyEdit(c, ed) ==
    IF ed.f = "subject" THEN [c EXCEPT !.subject[ed.nid] = ed.v]
    ELSE IF ed.f = "issuer" THEN [c EXCEPT !.issuer[ed.nid] = ed.v]
    ELSE [c EXCEPT ![ed.f] = ed.v]

RECURSIVE ApplyEdits(_, _)
ApplyEdits(c, idx) ==
    IF idx = <<>> THEN c
    ELSE ApplyEdits(ApplyEdit(c, FieldEdits[Head(idx)]), Tail(idx))

\* the increasing sequences of at most k indexes of FieldEdits, from lo on
RECURSIVE Picks(_, _)
Picks(k, lo) ==
    IF k = 0 THEN {<<>>}
    ELSE {<<>>} \cup UNION {{<<i>> \o r : r \in Picks(k - 1, i + 1)} :
                               i \in lo..Len(FieldEdits)}

\* the sequences of exactly k subjectAltName entries
RECURSIVE AltLists(_)
AltLists(k) ==
    IF k = 0 THEN {<<>>}
    ELSE {Append(l, AltEntries[j]) : l \in AltLists(k - 1), j \in 1..Len(AltEntries)}

WithSan(c, l) ==
    IF l = <<>> THEN c ELSE [c EXCEPT !.san_present = TRUE, !.san = l]

\* the certificate of k subjectAltName entries l and the field edits idx
Input(idx, l) == WithSan(ApplyEdits(BaseCert, idx), l)

(***************************************************************************)
(* tls_get_peer_cert, one action per statement of its chain.               *)
(***************************************************************************)
\* the caller's *cert_p before the call: not yet assigned
Unassigned == [NullCert EXCEPT !.ptr = 0 - 1]

NoAlt == [stack |-> NULL, count |-> 0, i |-> 0, rv |-> 0 - 1]

NoCall == [st |-> "none"]

Init ==
    /\ pc = "idle"
    /\ conn = FALSE
    /\ peer = BaseCert
    /\ mem = [heap |-> <<>>, n |-> 0, fail |-> {}, hit |-> FALSE]
    /\ errs = <<>>
    /\ cert = NullCert
    /\ cert_p = Unassigned
    /\ ret = 0 - 1
    /\ alt = NoAlt
    /\ steps = [run |-> <<>>, looked |-> <<>>]
    /\ tcall = NoCall
    /\ bcall = NoCall
    /\ fcall = NoCall

\* lines 316-359: the entry checks and the allocation of the result
Begin ==
    /\ pc = "idle"
    /\ \E k \in 0..MaxEdits : \E idx \in Picks(MaxEdits - k, 1), l \in AltLists(k) :
        LET in == Input(idx, l)
            m0 == [heap |-> <<>>, n |-> 0, fail |-> in.fail, hit |-> FALSE]
            a == Alloc(m0)
            early(msg) ==
                /\ errs' = tls_set_error(errs, msg)
                /\ mem' = m0
                /\ cert' = NullCert
                /\ pc' = "returned"
        IN /\ conn' = in.conn
           /\ peer' = in
           /\ cert_p' = NullCert
           /\ ret' = 0 - 1
           /\ IF ~in.conn THEN early("not connected")
              ELSE IF in.isnull THEN early("peer does not have cert")
              ELSE IF in.version < 0 THEN early("invalid version")
              ELSE IF in.subject_isnull THEN early("cert does not have subject")
              ELSE IF in.issuer_isnull THEN early("cert does not have issuer")
              ELSE IF ~a.ok
              THEN /\ errs' = tls_set_error(errs, "calloc failed")
                   /\ mem' = tls_cert_free(a.mem, NullCert)
                   /\ cert' = NullCert
                   /\ pc' = "returned"
              ELSE /\ errs' = errs
                   /\ mem' = a.mem
                   /\ cert' = [NullCert EXCEPT !.ptr = a.ptr, !.version = in.version]
                   /\ pc' = "subject"
    /\ UNCHANGED <<alt, steps, tcall, bcall, fcall>>

\* line 361: ret = tls_get_entity(ctx, subject, &cert->subject)
GetSubject ==
    /\ pc = "subject"
    /\ LET r == tls_get_entity(mem, errs, peer.subject, cert.subject)
       IN /\ ret' = r.ret
          /\ mem' = r.mem
          /\ errs' = r.errs
          /\ cert' = [cert EXCEPT !.subject = r.ent]
          /\ steps' = [run |-> Append(steps.run, "subject"),
                       looked |-> steps.looked \o
                           [k \in 1..Len(r.looked) |-> <<"subject", r.looked[k]>>]]
    /\ pc' = "issuer"
    /\ UNCHANGED <<conn, peer, cert_p, alt, tcall, bcall, fcall>>

\* lines 362-363: if (ret == 0) ret = tls_get_entity(ctx, issuer, &cert->issuer)
GetIssuer ==
    /\ pc = "issuer"
    /\ IF ret = 0
       THEN LET r == tls_get_entity(mem, errs, peer.issuer, cert.issuer)
            IN /\ ret' = r.ret
               /\ mem' = r.mem
               /\ errs' = r.errs
               /\ cert' = [cert EXCEPT !.issuer = r.ent]
               /\ steps' = [run |-> Append(steps.run, "issuer"),
                            looked |-> steps.looked \o
                                [k \in 1..Len(r.looked) |-> <<"issuer", r.looked[k]>>]]
       ELSE UNCHANGED <<ret, mem, errs, cert, steps>>
    /\ pc' = "altnames"
    /\ UNCHANGED <<conn, peer, cert_p, alt, tcall, bcall, fcall>>

\* lines 364-365 and 249-268: the call of tls_cert_get_altnames up to its loop
GetAltnames ==
    /\ pc = "altnames"
    /\ IF ret = 0
       THEN LET \* X509_get_ext_d2i: NULL without the extension or without memory
                st == Alloc(mem)
                count == Len(peer.san)
                arr == Alloc(st.mem)
            IN /\ steps' = [steps EXCEPT !.run = Append(@, "altnames")]
               /\ IF ~peer.san_present
                  THEN /\ ret' = 0
                       /\ pc' = "not_before"
                       /\ UNCHANGED <<mem, errs, cert, alt>>
                  ELSE IF ~st.ok
                  THEN /\ ret' = 0
                       /\ mem' = st.mem
                       /\ pc' = "not_before"
                       /\ UNCHANGED <<errs, cert, alt>>
                  ELSE IF count = 0
                  THEN /\ ret' = 0
                       /\ mem' = Free(st.mem, st.ptr)
                       /\ pc' = "not_before"
                       /\ UNCHANGED <<errs, cert, alt>>
                  ELSE IF ~arr.ok
                  THEN /\ ret' = 0 - 1
                       /\ errs' = tls_set_error(errs, "no mem")
                       /\ mem' = Free(arr.mem, st.ptr)
                       /\ pc' = "not_before"
                       /\ UNCHANGED <<cert, alt>>
                  ELSE /\ cert' = [cert EXCEPT !.subject_alt_names =
                                      [ptr |-> arr.ptr,
                                       slots |-> [k \in 1..count |-> NullSlot]]]
                       /\ mem' = arr.mem
                       /\ alt' = [stack |-> st.ptr, count |-> count, i |-> 0,
                                  rv |-> 0 - 1]
                       /\ pc' = "altloop"
                       /\ UNCHANGED <<ret, errs>>
       ELSE /\ pc' = "not_before"
            /\ UNCHANGED <<ret, mem, errs, cert, alt, steps>>
    /\ UNCHANGED <<conn, peer, cert_p, tcall, bcall, fcall>>

\* lines 270-290: one turn of the loop; after the last one, or on rv < 0,
\* the stack is freed and tls_cert_get_altnames returns rv
LoadAltname ==
    /\ pc = "altloop"
    /\ LET altname == peer.san[alt.i + 1]
           r == tls_cert_get_altnames_entry(mem, errs, altname, cert, alt.rv)
           last == r.rv < 0 \/ alt.i + 1 >= alt.count
           rv == IF r.rv < 0 THEN r.rv ELSE 0
       IN /\ errs' = r.errs
          /\ cert' = r.cert
          /\ IF last
             THEN /\ mem' = Free(r.mem, alt.stack)
                  /\ alt' = [alt EXCEPT !.i = IF r.rv < 0 THEN @ ELSE @ + 1,
                                        !.rv = rv, !.stack = NULL]
                  /\ ret' = rv
                  /\ pc' = "not_before"
             ELSE /\ mem' = r.mem
                  /\ alt' = [alt EXCEPT !.i = @ + 1, !.rv = r.rv]
                  /\ ret' = ret
                  /\ pc' = "altloop"
    /\ UNCHANGED <<conn, peer, cert_p, steps, tcall, bcall, fcall>>

\* the not-before step without its test of ret
ParseNotBefore_unguarded ==
    /\ pc = "not_before"
    /\ LET r == tls_parse_time(mem, errs, peer.notBefore)
       IN /\ ret' = r.ret
          /\ mem' = r.mem
          /\ errs' = r.errs
          /\ cert' = [cert EXCEPT !.not_before = r.dst]
          /\ steps' = [steps EXCEPT !.run = Append(@, "not_before")]
    /\ pc' = "not_after"
    /\ UNCHANGED <<conn, peer, cert_p, alt, tcall, bcall, fcall>>

\* lines 366-367: if (ret == 0) ret = tls_parse_time(.. notBefore ..)
ParseNotBefore ==
    /\ pc = "not_before"
    /\ IF ret = 0
       THEN LET r == tls_parse_time(mem, errs, peer.notBefore)
            IN /\ ret' = r.ret
               /\ mem' = r.mem
               /\ errs' = r.errs
               /\ cert' = [cert EXCEPT !.not_before = r.dst]
               /\ steps' = [steps EXCEPT !.run = Append(@, "not_before")]
       ELSE UNCHANGED <<ret, mem, errs, cert, steps>>
    /\ pc' = "not_after"
    /\ UNCHANGED <<conn, peer, cert_p, alt, tcall, bcall, fcall>>

\* lines 368-369: if (ret == 0) ret = tls_parse_time(.. notAfter ..)
ParseNotAfter ==
    /\ pc = "not_after"
    /\ IF ret = 0
       THEN LET r == tls_parse_time(mem, errs, peer.notAfter)
            IN /\ ret' = r.ret
               /\ mem' = r.mem
               /\ errs' = r.errs
               /\ cert' = [cert EXCEPT !.not_after = r.dst]
               /\ steps' = [steps EXCEPT !.run = Append(@, "not_after")]
       ELSE UNCHANGED <<ret, mem, errs, cert, steps>>
    /\ pc' = "serial"
    /\ UNCHANGED <<conn, peer, cert_p, alt, tcall, bcall, fcall>>

\* lines 370-371: if (ret == 0) ret = tls_parse_bigint(.. serial ..)
ParseSerial ==
    /\ pc = "serial"
    /\ IF ret = 0
       THEN LET r == tls_parse_bigint(mem, errs, peer.serial)
            IN /\ ret' = r.ret
               /\ mem' = r.mem
               /\ errs' = r.errs
               /\ cert' = [cert EXCEPT !.serial = r.dst]
               /\ steps' = [steps EXCEPT !.run = Append(@, "serial")]
       ELSE UNCHANGED <<ret, mem, errs, cert, steps>>
    /\ pc' = "finish"
    /\ UNCHANGED <<conn, peer, cert_p, alt, tcall, bcall, fcall>>

\* lines 372-378: hand the result over, or free it and return ret
Finish ==
    /\ pc = "finish"
    /\ IF ret = 0
       THEN /\ cert_p' = cert
            /\ mem' = mem
       ELSE /\ cert_p' = cert_p
            /\ mem' = tls_cert_free(mem, cert)
    /\ pc' = "returned"
    /\ UNCHANGED <<conn, peer, errs, cert, ret, alt, steps, tcall, bcall, fcall>>

\* the caller releases the certificate it was given: tls_cert_free(*cert_p)
CallerFree ==
    /\ pc = "returned"
    /\ mem' = tls_cert_free(mem, cert_p)
    /\ pc' = "released"
    /\ UNCHANGED <<conn, peer, errs, cert, cert_p, ret, alt, steps, tcall, bcall, fcall>>

Next ==
    \/ Begin
    \/ GetSubject
    \/ GetIssuer
    \/ GetAltnames
    \/ LoadAltname
    \/ ParseNotBefore
    \/ ParseNotAfter
    \/ ParseSerial
    \/ Finish
    \/ CallerFree

Spec == Init /\ [][Next]_vars

(***************************************************************************)
(* Stand-alone calls of the two converters, on wider sets of inputs.       *)
(***************************************************************************)
NoMem(fail) == [heap |-> <<>>, n |-> 0, fail |-> fail, hit |-> FALSE]

TimeMons ==
    Range(months) \cup {<<"F", "o", "o">>, <<"a", "u", "g">>, <<"J", "a">>,
                        <<"J", "a", "n", "e">>}

TimeDays == {1, 9, 10, 31}

TimeTimes == {<<"0", "0", ":", "0", "0", ":", "0", "0">>,
              <<"2", "0", ":", "5", "1", ":", "5", "2">>}

TimeYears == {<<"2", "0", "2", "4">>, <<"1", "9", "9", "9">>}

TimeZones == {<<" ", "G", "M", "T">>, <<>>, <<" ", "U", "T", "C">>,
              <<" ", "g", "m", "t">>, <<" ", "G", "M", "T", " ", "X">>, <<" ">>,
              <<" ", "G", "M", "T", "+", "1">>}

TimeInputs ==
    [valid : BOOLEAN, mon : TimeMons, day : TimeDays, time : TimeTimes,
     year : TimeYears, tz : TimeZones]

InitTime ==
    /\ Init
    /\ tcall = NoCall

\* tls_parse_time(ctx, asn1time, &dst)
ParseTime ==
    /\ tcall.st = "none"
    /\ \E t \in TimeInputs, fail \in {{}, {0}, {1}} :
          tcall' = [st |-> "done", in |-> t,
                    r |-> tls_parse_time(NoMem(fail), <<>>, t)]
    /\ UNCHANGED <<pc, conn, peer, mem, errs, cert, cert_p, ret, alt, steps, bcall, fcall>>

NextTime == ParseTime

SpecTime == InitTime /\ [][NextTime]_vars

\* the magnitudes of the serial numbers: any first byte of SerialFirst, then
\* bytes 0 or 255
SerialFirst == {0, 1, 127, 128, 255}

RECURSIVE SerialTails(_)
SerialTails(n) ==
    IF n = 0 THEN {<<>>}
    ELSE {<<>>} \cup {<<b>> \o t : b \in {0, 255}, t \in SerialTails(n - 1)}

SerialInputs ==
    [neg : BOOLEAN,
     data : {<<>>} \cup {<<b>> \o t : b \in SerialFirst, t \in SerialTails(MaxSerialLen - 1)}]

InitBigint ==
    /\ Init
    /\ bcall = NoCall

\* tls_parse_bigint(ctx, asn1int, &dst)
ParseBigint ==
    /\ bcall.st = "none"
    /\ \E a \in SerialInputs, fail \in {{}, {0}, {1}, {2}} :
          bcall' = [st |-> "done", in |-> a,
                    r |-> tls_parse_bigint(NoMem(fail), <<>>, a)]
    /\ UNCHANGED <<pc, conn, peer, mem, errs, cert, cert_p, ret, alt, steps, tcall, fcall>>

NextBigint == ParseBigint

SpecBigint == InitBigint /\ [][NextBigint]_vars

(***************************************************************************)
(* tls_get_peer_cert_fingerprint (lines 419-467).                          *)
(***************************************************************************)

\* the largest caller's buffer of the calls
MaxBufLen == 33

EVP_MAX_MD_SIZE == 64
SHA_DIGEST_LENGTH == 20
SHA256_DIGEST_LENGTH == 32

UpperChars == <<"A", "B", "C", "D", "E", "F", "G", "H", "I", "J", "K", "L", "M",
                "N", "O", "P", "Q", "R", "S", "T", "U", "V", "W", "X", "Y", "Z">>
LowerChars == <<"a", "b", "c", "d", "e", "f", "g", "h", "i", "j", "k", "l", "m",
                "n", "o", "p", "q", "r", "s", "t", "u", "v", "w", "x", "y", "z">>

tolower(c) ==
    IF \E i \in 1..Len(UpperChars) : UpperChars[i] = c
    THEN LowerChars[CHOOSE i \in 1..Len(UpperChars) : UpperChars[i] = c]
    ELSE c

\* strcmp in the place of strcasecmp
strcasecmp_case_sensitive(a, b) == IF a = b THEN 0 ELSE 1

\* strcasecmp(a, b): 0 when the strings are equal after tolower, otherwise
\* non-zero (the code tests the result against 0 only, so the sign is left out)
strcasecmp(a, b) ==
    IF /\ Len(a) = Len(b)
       /\ \A i \in 1..Len(a) : tolower(a[i]) = tolower(b[i])
    THEN 0 ELSE 1

sha1_name == <<"s", "h", "a", "1">>
sha256_name == <<"s", "h", "a", "2", "5", "6">>

EVP_sha1 == [name |-> "sha1", size |-> SHA_DIGEST_LENGTH]
EVP_sha256 == [name |-> "sha256", size |-> SHA256_DIGEST_LENGTH]

\* the digest of a certificate: md.size bytes, none of them 0, different for
\* the two certificates and the two algorithms
DigestBytes(x, md) ==
    [i \in 1..md.size |-> 1 + ((x * 101 + md.size * 7 + i * 3) % 255)]

\* the bytes of dst after memcpy(dst, src, n)
memcpy(dst, src, n) ==
    [i \in 1..Len(dst) |-> IF i <= n THEN src[i] ELSE dst[i]]

\* the bytes of a buffer of n bytes after explicit_bzero(buf, n)
explicit_bzero(n) == [i \in 1..n |-> 0]

\* X509_digest(peer, md, tmpbuf, &tmplen): 1 with the digest in the first
\* md.size bytes and its size in tmplen; 0 on failure, with the buffer as it
\* was ("untouched") or already holding digest bytes ("written")
X509_digest(x, md, tmpbuf, tmplen, outcome) ==
    IF outcome = "ok"
    THEN [ret |-> 1, tmpbuf |-> memcpy(tmpbuf, DigestBytes(x, md), md.size),
          tmplen |-> md.size]
    ELSE IF outcome = "written"
    THEN [ret |-> 0, tmpbuf |-> memcpy(tmpbuf, DigestBytes(x, md), md.size),
          tmplen |-> tmplen]
    ELSE [ret |-> 0, tmpbuf |-> tmpbuf, tmplen |-> tmplen]

DigestOutcomes == {"ok", "untouched", "written"}

\* the algorithm names of the calls: "sha1", "sha256" and "md5" in every
\* mix of cases, and names that are neither
toupper(c) ==
    IF \E i \in 1..Len(LowerChars) : LowerChars[i] = c
    THEN UpperChars[CHOOSE i \in 1..Len(LowerChars) : LowerChars[i] = c]
    ELSE c

RECURSIVE CaseVariants(_)
CaseVariants(name) ==
    IF name = <<>> THEN {<<>>}
    ELSE {<<c>> \o t : c \in {Head(name), toupper(Head(name))},
                       t \in CaseVariants(Tail(name))}

OtherAlgos ==
    {<<>>, <<"s", "h", "a">>, <<"s", "h", "a", "2">>, <<"s", "h", "a", "-", "1">>,
     <<"s", "h", "a", "1", " ">>, <<"s", "h", "a", "2", "5", "6", "0">>,
     <<"s", "h", "a", "5", "1", "2">>, <<"S", "H", "A", "2", "5", "5">>,
     <<"t", "h", "a", "1">>}

AlgoNames ==
    CaseVariants(sha1_name) \cup CaseVariants(sha256_name)
        \cup CaseVariants(<<"m", "d", "5">>) \cup OtherAlgos

\* what the stack holds in tmpbuf before the call
StackFills == {0, 170}

\* the caller's buffer of n bytes before the call
CallerBuf(n) == [i \in 1..n |-> 238]

Fill(n, b) == [i \in 1..n |-> b]

\* lines 419-431: the arguments, the locals, "if (outlen) *outlen = 0"
FpBegin ==
    /\ fcall.st = "none"
    /\ \E c \in BOOLEAN, x \in {NULL, 1, 2}, a \in AlgoNames,
          n \in 0..MaxBufLen, o \in BOOLEAN, g \in StackFills :
          fcall' = [st |-> "conn", conn |-> c, peer |-> x, algo |-> a,
                    buflen |-> n, buf |-> CallerBuf(n),
                    has_outlen |-> o,
                    outlen |-> IF o THEN 0 ELSE NULL,
                    md |-> NULL, tmpbuf |-> Fill(EVP_MAX_MD_SIZE, g),
                    tmplen |-> 0, digested |-> FALSE, ret |-> NULL,
                    errs |-> <<>>]
    /\ UNCHANGED <<pc, conn, peer, mem, errs, cert, cert_p, ret, alt, steps, tcall, bcall>>

\* lines 433-436
FpCheckConn ==
    /\ fcall.st = "conn"
    /\ fcall' = IF ~fcall.conn
                THEN [fcall EXCEPT !.errs = tls_set_error(@, "not connected"),
                                   !.ret = 0 - 1, !.st = "done"]
                ELSE [fcall EXCEPT !.st = "peer"]
    /\ UNCHANGED <<pc, conn, peer, mem, errs, cert, cert_p, ret, alt, steps, tcall, bcall>>

\* lines 438-442
FpGetPeer ==
    /\ fcall.st = "peer"
    /\ fcall' = IF fcall.peer = NULL
                THEN [fcall EXCEPT !.errs = tls_set_error(@, "peer does not have cert"),
                                   !.ret = 0 - 1, !.st = "done"]
                ELSE [fcall EXCEPT !.st = "md"]
    /\ UNCHANGED <<pc, conn, peer, mem, errs, cert, cert_p, ret, alt, steps, tcall, bcall>>

\* lines 444-451
FpSelectMd ==
    /\ fcall.st = "md"
    /\ fcall' = IF strcasecmp(fcall.algo, sha1_name) = 0
                THEN [fcall EXCEPT !.md = EVP_sha1, !.st = "digest"]
                ELSE IF strcasecmp(fcall.algo, sha256_name) = 0
                THEN [fcall EXCEPT !.md = EVP_sha256, !.st = "digest"]
                ELSE [fcall EXCEPT !.errs = tls_set_error(@, "invalid fingerprint algorithm"),
                                   !.ret = 0 - 1, !.st = "done"]
    /\ UNCHANGED <<pc, conn, peer, mem, errs, cert, cert_p, ret, alt, steps, tcall, bcall>>

\* lines 453-457
FpDigest ==
    /\ fcall.st = "digest"
    /\ \E outcome \in DigestOutcomes :
          LET d == X509_digest(fcall.peer, fcall.md, fcall.tmpbuf, fcall.tmplen, outcome)
              f == [fcall EXCEPT !.tmpbuf = d.tmpbuf, !.tmplen = d.tmplen,
                                 !.digested = TRUE]
          IN  fcall' = IF d.ret # 1
                       THEN [f EXCEPT !.errs = tls_set_error(@, "X509_digest failed"),
                                      !.ret = 0 - 1, !.st = "done"]
                       ELSE [f EXCEPT !.st = "copy"]
    /\ UNCHANGED <<pc, conn, peer, mem, errs, cert, cert_p, ret, alt, steps, tcall, bcall>>

\* lines 459-466
FpCopyOut ==
    /\ fcall.st = "copy"
    /\ LET tmplen == IF fcall.tmplen > fcall.buflen THEN fcall.buflen ELSE fcall.tmplen
       IN  fcall' = [fcall EXCEPT
                        !.tmplen = tmplen,
                        !.buf = memcpy(@, fcall.tmpbuf, tmplen),
                        !.tmpbuf = explicit_bzero(EVP_MAX_MD_SIZE),
                        !.outlen = IF fcall.has_outlen THEN tmplen ELSE @,
                        !.ret = 0, !.st = "done"]
    /\ UNCHANGED <<pc, conn, peer, mem, errs, cert, cert_p, ret, alt, steps, tcall, bcall>>

NextFp ==
    \/ FpBegin
    \/ FpCheckConn
    \/ FpGetPeer
    \/ FpSelectMd
    \/ FpDigest
    \/ FpCopyOut

SpecFp == Init /\ [][NextFp]_vars


(***************************************************************************)
(* Properties.                                                             *)
(***************************************************************************)
Returned == pc \in {"returned", "released"}

Blocks == 1..Len(mem.heap)

\* the GeneralName types the loop of tls_cert_get_altnames hands to a loader
LoadedTypes == {"GEN_DNS", "GEN_EMAIL", "GEN_URI", "GEN_IPADD"}

\* C1: when tls_get_peer_cert has returned a failure, *cert_p is NULL and
\* every block allocated during the call has been freed exactly once; no
\* block is ever freed twice, and *cert_p is only ever set by a success.
C1_FailureFreesAll ==
    /\ \A p \in Blocks : mem.heap[p] <= 1
    /\ (pc # "idle" /\ cert_p.ptr # NULL) => (Returned /\ ret = 0)
    /\ (Returned /\ ret # 0) =>
          /\ cert_p = NullCert
          /\ \A p \in Blocks : mem.heap[p] = 1

\* a failure after an alt name was stored and both entities were filled
C1_Witness ==
    /\ pc = "returned"
    /\ ret # 0
    /\ cert.subject_alt_name_count >= 1
    /\ cert.subject.common_name.ptr # NULL
    /\ cert.issuer.common_name.ptr # NULL
    /\ Len(mem.heap) >= 6

\* C2: an entry of a type other than DNS, Email, URI and IP address is
\* skipped wherever it stands in the list: the turn of the loop that meets
\* it sets no error, stores nothing and does not fail the extraction.
C2_UnknownTypeSkipped ==
    [][(pc = "altloop" /\ peer.san[alt.i + 1].type \notin LoadedTypes) =>
          /\ ret' = 0
          /\ errs' = errs
          /\ cert'.subject_alt_name_count = cert.subject_alt_name_count]_vars

\* C4: a call that has failed has called tls_set_error exactly once, a call
\* that has succeeded has not called it.
C4_ErrorSetOnce ==
    Returned => Len(errs) = (IF ret # 0 THEN 1 ELSE 0)

\* the entries the loaders store: DNS, Email and URI in IA5String encoding,
\* and IP addresses
Loadable(e) ==
    \/ e.type \in {"GEN_DNS", "GEN_EMAIL", "GEN_URI"} /\ e.format = "V_ASN1_IA5STRING"
    \/ e.type = "GEN_IPADD"

\* what a stored entry holds for a subjectAltName entry
Decoded(e) ==
    [val |-> e.data,
     type |-> IF e.type = "GEN_DNS" THEN TLS_CERT_NAME_DNS
              ELSE IF e.type = "GEN_EMAIL" THEN TLS_CERT_NAME_EMAIL
              ELSE IF e.type = "GEN_URI" THEN TLS_CERT_NAME_URI
              ELSE IF Len(e.data) = 4 THEN TLS_CERT_NAME_IPv4
              ELSE TLS_CERT_NAME_IPv6]

\* the first subject_alt_name_count entries of the array of c
Stored(c) ==
    [k \in 1..c.subject_alt_name_count |->
        [val |-> c.subject_alt_names.slots[k].alt_name.val,
         type |-> c.subject_alt_names.slots[k].alt_name_type]]

Filled(c) ==
    {k \in 1..Len(c.subject_alt_names.slots) :
        c.subject_alt_names.slots[k].alt_name.ptr # NULL}

AllDecoded == [k \in 1..Len(peer.san) |-> Decoded(peer.san[k])]

LoadableDecoded ==
    LET l == SelectSeq(peer.san, Loadable)
    IN [k \in 1..Len(l) |-> Decoded(l[k])]

StepOrder == <<"subject", "issuer", "altnames", "not_before", "not_after", "serial">>

StepIndex(s) == CHOOSE k \in 1..Len(StepOrder) : StepOrder[k] = s

IsPrefix(a, b) == Len(a) <= Len(b) /\ a = SubSeq(b, 1, Len(a))

Last(q) == q[Len(q)]

\* malformed fields of the certificate, read off the certificate itself
BadAttr(a) == a.present /\ NUL \in Range(a.data)

BadName(name) == \E nid \in Nids : BadAttr(name[nid])

BadAltEntry(e) ==
    \/ /\ e.type \in {"GEN_DNS", "GEN_EMAIL", "GEN_URI"}
       /\ e.format = "V_ASN1_IA5STRING"
       /\ (e.data = <<>> \/ NUL \in Range(e.data) \/ e.data = <<SPACE>>)
    \/ e.type = "GEN_IPADD" /\ Len(e.data) \notin {4, 16}

BadTime(t) ==
    \/ ~t.valid
    \/ t.tz \notin {<<>>, <<" ", "G", "M", "T">>}
    \/ t.mon \notin Range(months)

MalformedSteps ==
    {k \in 1..Len(StepOrder) :
        \/ k = 1 /\ BadName(peer.subject)
        \/ k = 2 /\ BadName(peer.issuer)
        \/ k = 3 /\ \E j \in 1..Len(peer.san) : BadAltEntry(peer.san[j])
        \/ k = 4 /\ BadTime(peer.notBefore)
        \/ k = 5 /\ BadTime(peer.notAfter)}

\* the messages of the steps, allocation failures apart
StepMsgs(s) ==
    IF s \in {"subject", "issuer"} THEN {"corrupt cert - NUL bytes is value"}
    ELSE IF s = "altnames"
    THEN {"invalid string value", "single space as name",
          "negative length for ipaddress", "invalid length for ipaddress"}
    ELSE IF s \in {"not_before", "not_after"}
    THEN {"invalid time format", "invalid time format: no year",
          "no mem to parse time"}
    ELSE {"cannot parse serial"}

\* the attributes looked up for entity ent, in the order of the lookups
LookedOf(ent) ==
    LET l == SelectSeq(steps.looked, LAMBDA x : x[1] = ent)
    IN [k \in 1..Len(l) |-> l[k][2]]

FirstBadAttr(name) ==
    CHOOSE k \in 1..Len(EntNid) :
        /\ BadAttr(name[EntNid[k]])
        /\ \A j \in 1..(k - 1) : ~BadAttr(name[EntNid[j]])

C5_State ==
    /\ IsPrefix(steps.run, StepOrder)
    /\ IsPrefix(LookedOf("subject"), EntNid)
    /\ IsPrefix(LookedOf("issuer"), EntNid)
    /\ (Returned /\ steps.run # <<>>) =>
          /\ ret = 0 => steps.run = StepOrder
          /\ (ret # 0 /\ errs # <<>> /\ ~mem.hit) =>
                /\ MalformedSteps # {}
                /\ \A k \in MalformedSteps : StepIndex(Last(steps.run)) <= k
                /\ StepIndex(Last(steps.run)) \in MalformedSteps
                /\ errs[1] \in StepMsgs(Last(steps.run))
          /\ (MalformedSteps # {} /\ ~mem.hit) =>
                /\ ret # 0
                /\ \A k \in MalformedSteps : StepIndex(Last(steps.run)) <= k
          /\ (ret # 0 /\ ~mem.hit /\ Last(steps.run) = "subject") =>
                Len(LookedOf("subject")) = FirstBadAttr(peer.subject)
          /\ (ret # 0 /\ ~mem.hit /\ Last(steps.run) = "issuer") =>
                /\ Len(LookedOf("subject")) = Len(EntNid)
                /\ Len(LookedOf("issuer")) = FirstBadAttr(peer.issuer)

C5_Step ==
    (pc \in {"issuer", "altnames", "not_before", "not_after", "serial", "finish"}
     /\ ret # 0) =>
        /\ steps' = steps
        /\ errs' = errs
        /\ ret' = ret
        /\ cert' = cert

EntityOf(c, ent) == IF ent = "subject" THEN c.subject ELSE c.issuer

\* C6: a certificate with a NUL byte in one of the seven attributes of
\* subject or issuer is never returned: the call fails, with the
\* corrupt-value error unless an allocation failed first; in a returned
\* certificate a field is NULL exactly when its attribute is absent, and
\* otherwise holds the whole value of the attribute, which has no NUL.
C6_NulRejected ==
    /\ (Returned /\ steps.run # <<>> /\ (BadName(peer.subject) \/ BadName(peer.issuer))) =>
          /\ ret # 0
          /\ cert_p = NullCert
          /\ ~mem.hit => /\ ret = 0 - 2
                         /\ errs = <<"corrupt cert - NUL bytes is value">>
    /\ (pc = "returned" /\ ret = 0) =>
          \A ent \in {"subject", "issuer"} : \A k \in 1..Len(EntNid) :
              LET a == EntityOf(peer, ent)[EntNid[k]]
                  f == EntityOf(cert_p, ent)[EntField[k]]
              IN IF a.present
                 THEN f.ptr # NULL /\ f.val = a.data /\ NUL \notin Range(f.val)
                 ELSE f = NullStr

\* the issuer has a NUL in an attribute and the subject was already filled
C6_Witness ==
    /\ pc = "returned"
    /\ ret = 0 - 2
    /\ BadName(peer.issuer)
    /\ steps.run = <<"subject", "issuer">>
    /\ cert_p = NullCert

BadIa5(e) ==
    /\ e.type \in {"GEN_DNS", "GEN_EMAIL", "GEN_URI"}
    /\ e.format = "V_ASN1_IA5STRING"
    /\ (e.data = <<>> \/ NUL \in Range(e.data) \/ e.data = <<SPACE>>)

StringTypes == {TLS_CERT_NAME_DNS, TLS_CERT_NAME_EMAIL, TLS_CERT_NAME_URI}

C7_Step ==
    (pc = "altloop" /\ BadIa5(peer.san[alt.i + 1])) =>
        /\ errs' = Append(errs, IF peer.san[alt.i + 1].data = <<SPACE>>
                                THEN "single space as name"
                                ELSE "invalid string value")
        /\ ret' = 0 - 1
        /\ pc' = "not_before"
        /\ cert' = cert

C7_State ==
    /\ (Returned /\ ~mem.hit /\ \E j \in 1..Len(peer.san) : BadIa5(peer.san[j])) =>
          ret # 0
    /\ (Returned /\ ret = 0) =>
          \A k \in 1..cert_p.subject_alt_name_count :
              LET slot == cert_p.subject_alt_names.slots[k]
              IN slot.alt_name_type \in StringTypes =>
                    /\ slot.alt_name.val # <<>>
                    /\ NUL \notin Range(slot.alt_name.val)
                    /\ slot.alt_name.val # <<SPACE>>

\* C7: the loader rejects a DNS, Email or URI entry in IA5String encoding
\* that is the single space, is empty or holds a NUL: it sets the
\* invalid-alt-name message, stores nothing and fails the extraction; so
\* every string alt name of a returned certificate is non-empty, free of
\* NUL and not the single space.
C7_BadNameRejected == []C7_State /\ [][C7_Step]_vars

\* the loader has just rejected the DNS name " " after storing an entry
C7_Witness ==
    /\ pc = "not_before"
    /\ ret = 0 - 1
    /\ errs = <<"single space as name">>
    /\ alt.i = 1
    /\ peer.san[2] = GN("GEN_DNS", "V_ASN1_IA5STRING", <<SPACE>>)

C8_Step ==
    (pc = "altloop" /\ peer.san[alt.i + 1].type = "GEN_IPADD") =>
        LET data == peer.san[alt.i + 1].data
            L == Len(data)
            k == cert.subject_alt_name_count + 1
            slot == cert'.subject_alt_names.slots[k]
        IN IF L \in {4, 16}
           THEN IF mem'.hit = mem.hit
                THEN /\ cert'.subject_alt_name_count = k
                     /\ slot.alt_name_type =
                            (IF L = 4 THEN TLS_CERT_NAME_IPv4 ELSE TLS_CERT_NAME_IPv6)
                     /\ slot.alt_name.val = data
                     /\ slot.alt_name.ptr # NULL
                     /\ errs' = errs
                ELSE /\ cert'.subject_alt_name_count = k - 1
                     /\ errs' = Append(errs, "no mem")
                     /\ ret' = 0 - 1
           ELSE /\ errs' = Append(errs, "invalid length for ipaddress")
                /\ cert' = cert
                /\ ret' = 0 - 1
                /\ pc' = "not_before"

C8_State ==
    /\ (Returned /\ ~mem.hit /\
        \E j \in 1..Len(peer.san) :
            peer.san[j].type = "GEN_IPADD" /\ Len(peer.san[j].data) \notin {4, 16}) =>
          ret # 0
    /\ (Returned /\ ret = 0) =>
          \A k \in 1..cert_p.subject_alt_name_count :
              LET slot == cert_p.subject_alt_names.slots[k]
              IN /\ slot.alt_name_type = TLS_CERT_NAME_IPv4 => Len(slot.alt_name.val) = 4
                 /\ slot.alt_name_type = TLS_CERT_NAME_IPv6 => Len(slot.alt_name.val) = 16

\* C8: an IP address entry of 4 bytes is stored as IPv4 and one of 16
\* bytes as IPv6, with its bytes unchanged, and the count grows by one
\* (unless malloc fails); an entry of any other length sets the
\* invalid-length message, leaves the count and the array as they were and
\* fails the extraction, so it is never dropped silently.
C8_IpAddrLength == []C8_State /\ [][C8_Step]_vars

\* a returned certificate holding an IPv4 and an IPv6 address
C8_Witness ==
    /\ pc = "returned"
    /\ ret = 0
    /\ \E j, k \in 1..cert_p.subject_alt_name_count :
          /\ Stored(cert_p)[j] = [val |-> <<10, 0, 0, 1>>, type |-> TLS_CERT_NAME_IPv4]
          /\ Stored(cert_p)[k].type = TLS_CERT_NAME_IPv6

\* the shape YYYY-MM-DDTHH:MM:SSZ
Canonical(str) ==
    /\ Len(str) = 20
    /\ \A k \in {1, 2, 3, 4, 6, 7, 9, 10, 12, 13, 15, 16, 18, 19} : str[k] \in Digits
    /\ str[5] = "-" /\ str[8] = "-" /\ str[11] = "T"
    /\ str[14] = ":" /\ str[17] = ":" /\ str[20] = "Z"

MonthNo(mon) == CHOOSE k \in 1..12 : months[k] = mon

\* the canonical string of the fields of a time
ExpectedTime(t) ==
    t.year \o <<"-">> \o Fmt02d(MonthNo(t.mon)) \o <<"-">> \o Fmt02d(t.day)
           \o <<"T">> \o t.time \o <<"Z">>

InvalidTimeMsgs == {"invalid time format", "invalid time format: no year"}

Reverse(q) == [k \in 1..Len(q) |-> q[Len(q) + 1 - k]]

RECURSIVE StripZeros(_)
StripZeros(bytes) ==
    IF bytes # <<>> /\ Head(bytes) = 0 THEN StripZeros(Tail(bytes)) ELSE bytes

DigitVal(c) == CHOOSE n \in 0..9 : DigitChars[n + 1] = c

\* 10 * le + carry for a little-endian number le in base 256
RECURSIVE MulAdd10(_, _)
MulAdd10(le, carry) ==
    IF le = <<>> THEN (IF carry = 0 THEN <<>> ELSE <<carry>>)
    ELSE LET v == Head(le) * 10 + carry
         IN <<v % 256>> \o MulAdd10(Tail(le), v \div 256)

\* the little-endian bytes of the number a decimal string denotes
RECURSIVE DecToBytes(_)
DecToBytes(str) ==
    IF str = <<>> THEN <<>>
    ELSE MulAdd10(DecToBytes(SubSeq(str, 1, Len(str) - 1)), DigitVal(str[Len(str)]))

\* C10 as claimed: a serial number that tls_parse_bigint converts yields a
\* string of decimal digits only, the exact decimal value of the big-endian
\* magnitude (01 00 00 00 00 gives "4294967296"); a failed conversion sets
\* the serial error and yields no string.
C10_SerialDigitsOnly ==
    bcall.st = "done" =>
        LET a == bcall.in
            r == bcall.r
        IN /\ r.ret = 0 =>
                 /\ r.dst.ptr # NULL
                 /\ r.errs = <<>>
                 /\ r.dst.val # <<>>
                 /\ Range(r.dst.val) \subseteq Digits
                 /\ StripZeros(Reverse(DecToBytes(r.dst.val))) = StripZeros(a.data)
           /\ (r.ret = 0 /\ a = [neg |-> FALSE, data |-> <<1, 0, 0, 0, 0>>]) =>
                 r.dst.val = <<"4", "2", "9", "4", "9", "6", "7", "2", "9", "6">>
           /\ r.ret # 0 =>
                 /\ r.dst = NullStr
                 /\ r.errs = <<"cannot parse serial">>

\* the serial numbers ASN1_INTEGER_get returns unchanged and non-negative
FitsLong(a) ==
    \/ IsZero(a.data) /\ Len(a.data) <= SizeofLong
    \/ ~a.neg /\ Len(a.data) <= SizeofLong
       /\ ~(Len(a.data) = SizeofLong /\ a.data[1] >= 128)

\* C10 as amended: a converted serial number yields the decimal digits of
\* the exact value of the big-endian magnitude, with nothing before them
\* for a non-negative number and a single '-' before them for a negative
\* one; the number that fits a long non-negatively takes the native path
\* (one allocation), any other the arbitrary-precision path; 01 00 00 00
\* 00 gives "4294967296"; a failed conversion sets the serial error and
\* yields no string.
C10_SerialDecimal ==
    bcall.st = "done" =>
        LET a == bcall.in
            r == bcall.r
            signed == a.neg /\ ~IsZero(a.data)
            digits == IF signed THEN Tail(r.dst.val) ELSE r.dst.val
        IN /\ r.ret = 0 =>
                 /\ r.dst.ptr # NULL
                 /\ r.errs = <<>>
                 /\ signed => Head(r.dst.val) = "-"
                 /\ digits # <<>>
                 /\ Range(digits) \subseteq Digits
                 /\ StripZeros(Reverse(DecToBytes(digits))) = StripZeros(a.data)
                 /\ r.mem.n = (IF FitsLong(a) THEN 1 ELSE 3)
           /\ (r.ret = 0 /\ a = [neg |-> FALSE, data |-> <<1, 0, 0, 0, 0>>]) =>
                 r.dst.val = <<"4", "2", "9", "4", "9", "6", "7", "2", "9", "6">>
           /\ r.ret # 0 =>
                 /\ r.dst = NullStr
                 /\ r.errs = <<"cannot parse serial">>
                 /\ r.mem.hit

\* a magnitude of nine bytes has been converted on the arbitrary-precision path
C10_Witness ==
    /\ bcall.st = "done"
    /\ bcall.r.ret = 0
    /\ ~bcall.in.neg
    /\ Len(bcall.in.data) > SizeofLong
    /\ bcall.in.data[1] = 1
    /\ bcall.r.mem.n = 3

(***************************************************************************)
(* tls_get_peer_cert_fingerprint.                                          *)
(***************************************************************************)

FpReturned == fcall.st = "done"

IsSha1 == fcall.algo \in CaseVariants(sha1_name)
IsSha256 == fcall.algo \in CaseVariants(sha256_name)

FpDigestSize == IF IsSha1 THEN SHA_DIGEST_LENGTH ELSE SHA256_DIGEST_LENGTH

FpWritten == IF FpDigestSize < fcall.buflen THEN FpDigestSize ELSE fcall.buflen

\* the caller's buffer with the first FpWritten bytes of the digest in it
FpExpectedBuf ==
    [i \in 1..fcall.buflen |->
        IF i <= FpWritten
        THEN DigestBytes(fcall.peer, [size |-> FpDigestSize])[i]
        ELSE CallerBuf(fcall.buflen)[i]]

\* C11: the algorithm name is matched without regard to case: "sha1" in any
\* case gives the 20-byte digest and "sha256" in any case the 32-byte one,
\* every other name fails with "invalid fingerprint algorithm"; on success
\* the reported count is min(digest size, buflen) and exactly that many
\* digest bytes are in the caller's buffer, the rest of it as before; on
\* every failure (not connected, no peer certificate, unsupported algorithm,
\* digest failure) the reported count is 0 and the caller's buffer is as it
\* was before the call.
C11_FingerprintContract ==
    FpReturned =>
        /\ fcall.ret \in {0, 0 - 1}
        /\ ~fcall.conn =>
              fcall.ret = 0 - 1 /\ fcall.errs = <<"not connected">>
        /\ fcall.conn /\ fcall.peer = NULL =>
              fcall.ret = 0 - 1 /\ fcall.errs = <<"peer does not have cert">>
        /\ fcall.conn /\ fcall.peer # NULL /\ ~IsSha1 /\ ~IsSha256 =>
              fcall.ret = 0 - 1 /\ fcall.errs = <<"invalid fingerprint algorithm">>
        /\ fcall.conn /\ fcall.peer # NULL /\ (IsSha1 \/ IsSha256) =>
              \/ fcall.ret = 0 /\ fcall.errs = <<>>
              \/ fcall.ret = 0 - 1 /\ fcall.errs = <<"X509_digest failed">>
        /\ fcall.ret = 0 =>
              /\ fcall.md.size = FpDigestSize
              /\ fcall.has_outlen => fcall.outlen = FpWritten
              /\ fcall.buf = FpExpectedBuf
        /\ fcall.ret = 0 - 1 =>
              /\ fcall.has_outlen => fcall.outlen = 0
              /\ fcall.buf = CallerBuf(fcall.buflen)

\* a mixed-case "ShA256" has succeeded into a buffer of 20 bytes: 20 of the
\* 32 digest bytes are written and reported
C11_Witness ==
    /\ FpReturned
    /\ fcall.ret = 0
    /\ fcall.algo = <<"S", "h", "A", "2", "5", "6">>
    /\ fcall.buflen = SHA_DIGEST_LENGTH
    /\ fcall.has_outlen
    /\ fcall.outlen = SHA_DIGEST_LENGTH
    /\ fcall.buf = SubSeq(DigestBytes(fcall.peer, EVP_sha256), 1, SHA_DIGEST_LENGTH)

\* C12: on every return path on which X509_digest has been invoked on the
\* temporary buffer, the path of a failed digest included, all
\* EVP_MAX_MD_SIZE bytes of the temporary buffer are zero at the return.
C12_TmpbufScrubbed ==
    FpReturned /\ fcall.digested =>
        fcall.tmpbuf = [i \in 1..EVP_MAX_MD_SIZE |-> 0]

====
